---- MODULE Spec2Model ----
(***************************************************************************)
(* Model of src/crew_ai_financial_daily_summary.py: the daily financial    *)
(* digest pipeline (search -> dedupe -> summary -> images -> translations  *)
(* -> PDF -> Telegram) driven by crewai_flow_run.                          *)
(*                                                                         *)
(* Abstractions.  A text is a record [tag, lines]: where it came from and  *)
(* the number of elements of text.split("\n"); the layout of create_pdf    *)
(* reads nothing else of a text.  Every HTTP call (requests.post / get) is *)
(* an input: it raises, or it answers.  Writing the PDF and reading it     *)
(* back from the working directory succeed.  time.sleep is not modelled.   *)
(***************************************************************************)
EXTENDS Integers, Sequences, FiniteSets, TLC

VARIABLES
    cfg,          \* the credentials read from the environment (lines 16-20)
    pc,           \* position in crewai_flow_run / search_agent_us_financial_news
    results,      \* search_agent's `results`, then the list it returns to the run
    max_images,   \* the max_images argument of select_images_from_results
    summary_en,   \* crewai_flow_run's summary_en
    images,       \* crewai_flow_run's images
    translations, \* the dict `translations`, as its (lang, text) pairs in insertion order
    doc,          \* what create_pdf drew and fetched, and whether it was saved
    sent,         \* what send_to_telegram returned: "True", "False" ("unset" before)
    ret,          \* what crewai_flow_run returned: "True", "False" ("unset" before)
    calls,        \* history: the functions called, in call order
    net,          \* history: the HTTP requests issued, in order
    provLog       \* history: what each provider call of search_agent produced

vars == <<cfg, pc, results, max_images, summary_en, images, translations,
          doc, sent, ret, calls, net, provLog>>

(***************************** bounds **************************************)
\* longest provider answer in the search-agent and image-selection checks
MaxItems == 2
\* longest provider answer in the checks of the whole run
MaxRunItems == 1
\* largest max_images tried on select_images_from_results
MaxImages == 3
\* longest English digest (in lines) handed to create_pdf
MaxLines == 50
\* lines of a text the generation endpoint answers with
GenTextLines == 5

(************************** values *****************************************)
None == "<None>"

\* Python truthiness of an optional string: None and "" are falsy.
Truthy(v) == v # None /\ v # ""

Min(a, b) == IF a < b THEN a ELSE b

\* sequences over S of length at most n
SeqsUpTo(S, n) == UNION {[1..k -> S] : k \in 0..n}

\* The single mock search result of search_serper.
MockItem ==
    [title |-> "Mock: US markets rally on strong jobs data",
     link |-> "your desired link",
     snippet |-> "S&P 500 closed higher after...",
     image |-> "your desired image"]

\* Items a provider may answer with in the search-agent checks: a repeated
\* link with different fields, a missing and an empty link whose title is the
\* key, a title equal to another item's link, and an item with no key at all.
SearchItems ==
    { [title |-> "T1", link |-> "L1", snippet |-> "s1", image |-> "img1"],
      [title |-> "T2", link |-> "L1", snippet |-> "s2", image |-> None],
      [title |-> "L1", link |-> None, snippet |-> "s3", image |-> "img2"],
      [title |-> "T1", link |-> "",   snippet |-> "s4", image |-> ""],
      [title |-> "T2", link |-> "L2", snippet |-> "s5", image |-> None],
      [title |-> None, link |-> None, snippet |-> None, image |-> None] }

\* Items a provider may answer with in the checks of the whole run.
RunItems ==
    { [title |-> "T1", link |-> "L1", snippet |-> "s1", image |-> "img1"],
      [title |-> "T2", link |-> "L2", snippet |-> "s5", image |-> None] }

SearchAnswers == SeqsUpTo(SearchItems, MaxItems)

RunAnswers == SeqsUpTo(RunItems, MaxRunItems)

NoText == [tag |-> "unset", lines |-> 0]

NoDoc == [raised |-> FALSE, saved |-> FALSE, events |-> <<>>, fetches |-> <<>>]

Configs ==
    [SERPER_API_KEY : BOOLEAN, TAVILY_API_KEY : BOOLEAN, LITELLM_API_KEY : BOOLEAN,
     TELEGRAM_BOT_TOKEN : BOOLEAN, TELEGRAM_CHANNEL_ID : BOOLEAN]

(************************** search providers *******************************)
\* What the HTTP exchange of search_serper can do: raise (transport error,
\* raise_for_status, r.json()), or answer with a list of organic items.
HttpAnswers(answers) ==
    {[raised |-> TRUE, items |-> <<>>]} \cup
    {[raised |-> FALSE, items |-> a] : a \in answers}

\* The exchange is an input only when a request is made.
SerperInputs(answers) ==
    IF cfg.SERPER_API_KEY THEN HttpAnswers(answers)
    ELSE {[raised |-> FALSE, items |-> <<>>]}

num_results == 5

\* results.append({... "image": item.get("image") or None})
OrganicItem(item) ==
    [item EXCEPT !.image = IF Truthy(@) THEN @ ELSE None]

\* search_serper: the mock result without a key, else one request whose
\* failure propagates to the caller.
search_serper(key, http) ==
    IF ~key
    THEN [raised |-> FALSE, items |-> <<MockItem>>, requested |-> FALSE]
    ELSE IF http.raised
    THEN [raised |-> TRUE, items |-> <<>>, requested |-> TRUE]
    ELSE [raised |-> FALSE, requested |-> TRUE,
          items |-> [i \in 1..Min(num_results, Len(http.items)) |->
                        OrganicItem(http.items[i])]]

\* search_tavily: both branches delegate to search_serper.
search_tavily(c, http) ==
    IF ~c.TAVILY_API_KEY
    THEN search_serper(c.SERPER_API_KEY, http)
    ELSE search_serper(c.SERPER_API_KEY, http)

\* mutant of DedupeKey: the key is the link alone
DedupeKeyLinkOnly(r) == r.link

\* link = r.get("link") or r.get("title")
DedupeKey(r) == IF Truthy(r.link) THEN r.link ELSE r.title

RECURSIVE DedupeFrom(_, _, _, _)
\* the loop of lines 120-125, from index i with `seen` and `deduped` so far
DedupeFrom(rs, i, seen, deduped) ==
    IF i > Len(rs) THEN deduped
    ELSE IF DedupeKey(rs[i]) \in seen
         THEN DedupeFrom(rs, i + 1, seen, deduped)
         ELSE DedupeFrom(rs, i + 1, seen \cup {DedupeKey(rs[i])},
                         Append(deduped, rs[i]))

Dedupe(rs) == DedupeFrom(rs, 1, {}, <<>>)

\* try: results += search_tavily(query, num_results=5) except Exception: log
SearchTavily(answers) ==
    /\ pc = "tavily"
    /\ \E http \in SerperInputs(answers) :
         LET r == search_tavily(cfg, http) IN
         /\ results' = IF r.raised THEN results ELSE results \o r.items
         /\ provLog' = Append(provLog, [fn |-> "search_tavily",
                                        raised |-> r.raised, items |-> r.items])
         /\ net' = IF r.requested THEN Append(net, "serper") ELSE net
    /\ calls' = Append(calls, "search_tavily")
    /\ pc' = "serper"
    /\ UNCHANGED <<cfg, max_images, summary_en, images, translations, doc, sent, ret>>

\* mutant of SearchSerper: a failing second call empties `results`
SearchSerperDropsOnFailure(answers) ==
    /\ pc = "serper"
    /\ \E http \in SerperInputs(answers) :
         LET r == search_serper(cfg.SERPER_API_KEY, http) IN
         /\ results' = IF r.raised THEN <<>> ELSE results \o r.items
         /\ provLog' = Append(provLog, [fn |-> "search_serper",
                                        raised |-> r.raised, items |-> r.items])
         /\ net' = IF r.requested THEN Append(net, "serper") ELSE net
    /\ calls' = Append(calls, "search_serper")
    /\ pc' = "dedupe"
    /\ UNCHANGED <<cfg, max_images, summary_en, images, translations, doc, sent, ret>>

\* try: results += search_serper(query, num_results=5) except Exception: log
SearchSerper(answers) ==
    /\ pc = "serper"
    /\ \E http \in SerperInputs(answers) :
         LET r == search_serper(cfg.SERPER_API_KEY, http) IN
         /\ results' = IF r.raised THEN results ELSE results \o r.items
         /\ provLog' = Append(provLog, [fn |-> "search_serper",
                                        raised |-> r.raised, items |-> r.items])
         /\ net' = IF r.requested THEN Append(net, "serper") ELSE net
    /\ calls' = Append(calls, "search_serper")
    /\ pc' = "dedupe"
    /\ UNCHANGED <<cfg, max_images, summary_en, images, translations, doc, sent, ret>>

\* the dedupe loop and `return deduped`
DedupeResults ==
    /\ pc = "dedupe"
    /\ results' = Dedupe(results)
    /\ pc' = "searched"
    /\ UNCHANGED <<cfg, max_images, summary_en, images, translations, doc, sent,
                   ret, calls, net, provLog>>


(************************** generation *************************************)
\* lines of "[MOCK LLM RESPONSE] " + prompt[:400] + "..." for the summary
\* prompt: its first 400 characters hold the 3 newlines of "\n\nCONTEXT:\n"
MockSummaryLines == 4

\* the same for the translation prompt: its first 400 characters hold 4
\* newlines, the last one after "ORIGINAL:"
MockTranslationLines == 5

\* What the HTTP exchange of litellm_generate can do: raise, or answer a text.
\* (The endpoint is a deployment value; with url = "" the post always raises.)
GenInputs ==
    IF cfg.LITELLM_API_KEY
    THEN {[raised |-> TRUE, lines |-> 0], [raised |-> FALSE, lines |-> GenTextLines]}
    ELSE {[raised |-> FALSE, lines |-> 0]}

\* litellm_generate: the mock echo without a key; else one request, whose
\* failure becomes the "[LLM_ERROR] ..." string
litellm_generate(key, mockLines, http) ==
    IF ~key
    THEN [text |-> [tag |-> "mock", lines |-> mockLines], requested |-> FALSE]
    ELSE IF http.raised
    THEN [text |-> [tag |-> "error", lines |-> 1], requested |-> TRUE]
    ELSE [text |-> [tag |-> "text", lines |-> http.lines], requested |-> TRUE]

\* summary_agent_generate: the sentinel for no results, else one generation
\* call (the prompt is built from results[:6])
summary_agent_generate(rs, key, http) ==
    IF rs = <<>>
    THEN [text |-> [tag |-> "sentinel", lines |-> 1], requested |-> FALSE,
          generated |-> FALSE]
    ELSE LET g == litellm_generate(key, MockSummaryLines, http) IN
         [text |-> g.text, requested |-> g.requested, generated |-> TRUE]

LANGUAGE_CODES == [arabic |-> "ar", hindi |-> "hi", hebrew |-> "he"]

\* translating_agent_translate: one generation call per language
translating_agent_translate(text, target_lang, key, http) ==
    litellm_generate(key, MockTranslationLines, http)

(************************** image selection ********************************)
\* f"https://via.placeholder.com/800x400.png?text=Financial+Chart+{n}"
Placeholder(n) == "Financial+Chart+" \o ToString(n)

RECURSIVE CollectImages(_, _, _, _)
\* the for loop of lines 158-163, from index i with `images` so far
CollectImages(rs, i, imgs, k) ==
    IF i > Len(rs) THEN imgs
    ELSE LET img == rs[i].image
             imgs1 == IF Truthy(img) THEN Append(imgs, img) ELSE imgs
         IN IF Len(imgs1) >= k THEN imgs1
            ELSE CollectImages(rs, i + 1, imgs1, k)

RECURSIVE PadImages(_, _)
\* the while loop of lines 164-165
PadImages(imgs, k) ==
    IF Len(imgs) < k
    THEN PadImages(Append(imgs, Placeholder(Len(imgs) + 1)), k)
    ELSE imgs

select_images_from_results(rs, k) == PadImages(CollectImages(rs, 1, <<>>, k), k)


(************************** create_pdf *************************************)
\* w, h = letter: reportlab's letter page is 612 x 792 points
PageHeight == 792

margin == 40

\* the canvas position: y, the current page, and what was drawn
NewCanvas == [y |-> PageHeight - margin, page |-> 1, ev |-> <<>>]

\* what c.drawString records for a line of the text
LineEvent(page, y, y0) ==
    [kind |-> "line", label |-> "", page |-> page, y |-> y, y0 |-> y0]

\* mutant of DrawLines: the lines are drawn with no page check
RECURSIVE DrawLinesNoBreak(_, _, _, _)
DrawLinesNoBreak(y, page, ev, n) ==
    IF n = 0 THEN [y |-> y, page |-> page, ev |-> ev]
    ELSE DrawLinesNoBreak(y - 14, page, Append(ev, LineEvent(page, y, y)), n - 1)

RECURSIVE DrawLines(_, _, _, _)
\* the for loop of draw_text_block over the n lines of the text, entered at
\* position y of `page`: a line that finds y < margin + 50 starts a new page
DrawLines(y, page, ev, n) ==
    IF n = 0 THEN [y |-> y, page |-> page, ev |-> ev]
    ELSE IF y < margin + 50
         THEN DrawLines((PageHeight - margin) - 14, page + 1,
                        Append(ev, LineEvent(page + 1, PageHeight - margin, y)), n - 1)
         ELSE DrawLines(y - 14, page, Append(ev, LineEvent(page, y, y)), n - 1)

\* draw_text_block(title, text): the title at y, y -= 18, the lines, y -= 10
draw_text_block(st, title, text) ==
    LET drawn == DrawLines(st.y - 18, st.page,
                           Append(st.ev, [kind |-> "title", label |-> title,
                                          page |-> st.page, y |-> st.y, y0 |-> st.y]),
                           text.lines)
    IN [drawn EXCEPT !.y = @ - 10]

\* whether summary_texts_by_lang has the key
Has(map, key) == \E i \in DOMAIN map : map[i].lang = key

\* summary_texts_by_lang.get(key), for a key the map has
Get(map, key) == map[CHOOSE i \in DOMAIN map : map[i].lang = key].text

\* f"{lang.capitalize()} Summary"
SectionTitle(lang) ==
    CASE lang = "arabic" -> "Arabic Summary"
      [] lang = "hindi" -> "Hindi Summary"
      [] lang = "hebrew" -> "Hebrew Summary"
      [] OTHER -> "Summary"

\* lines 217-226: the first image, drawn where the English block ended
PlaceFirstImage(st, imgs, ok) ==
    IF Len(imgs) >= 1 /\ ok
    THEN [st EXCEPT !.ev = Append(@, [kind |-> "image", label |-> "first", page |-> st.page,
                                      y |-> st.y - 310, y0 |-> st.y]),
                    !.y = st.y - 320]
    ELSE st

\* lines 234-247: the second image, after the block of the entry at index 1
PlaceSecondImage(st, i, imgs, ok) ==
    IF i = 1 /\ Len(imgs) > 1 /\ ok
    THEN LET st1 == IF st.y < margin + 320
                    THEN [st EXCEPT !.page = @ + 1, !.y = PageHeight - margin]
                    ELSE st
         IN [st1 EXCEPT !.ev = Append(@, [kind |-> "image", label |-> "second",
                                          page |-> st1.page, y |-> st1.y - 310, y0 |-> st.y]),
                        !.y = st1.y - 320]
    ELSE st

RECURSIVE OtherLanguages(_, _, _, _, _)
\* the loop of lines 229-247 from enumerate index i (0-based); the language
\* names of the model are lower case, so lang.lower() changes nothing
OtherLanguages(st, map, i, imgs, ok2) ==
    IF i >= Len(map) THEN st
    ELSE IF map[i + 1].lang \in {"english", "en"}
         THEN OtherLanguages(st, map, i + 1, imgs, ok2)
         ELSE OtherLanguages(
                  PlaceSecondImage(
                      draw_text_block(st, SectionTitle(map[i + 1].lang), map[i + 1].text),
                      i, imgs, ok2),
                  map, i + 1, imgs, ok2)

\* the image requests create_pdf issues: the first whenever images[0] exists,
\* the second when the entry at index 1 is not the English one
ImageFetches(map, imgs, ok1, ok2) ==
    (IF Len(imgs) >= 1 THEN <<[url |-> imgs[1], ok |-> ok1]>> ELSE <<>>) \o
    (IF Len(map) >= 2 /\ map[2].lang \notin {"english", "en"} /\ Len(imgs) > 1
     THEN <<[url |-> imgs[2], ok |-> ok2]>> ELSE <<>>)

\* create_pdf. eng = get("english") or get("en") (the texts are not empty);
\* with neither key eng is None: the title is drawn, eng.split raises out of
\* create_pdf and nothing is saved
create_pdf(map, imgs, ok1, ok2) ==
    IF ~Has(map, "english") /\ ~Has(map, "en")
    THEN [raised |-> TRUE, saved |-> FALSE, fetches |-> <<>>,
          events |-> <<[kind |-> "title", label |-> "English Summary", page |-> 1,
                        y |-> PageHeight - margin, y0 |-> PageHeight - margin]>>]
    ELSE LET eng == IF Has(map, "english") THEN Get(map, "english") ELSE Get(map, "en")
             st == OtherLanguages(
                       PlaceFirstImage(draw_text_block(NewCanvas, "English Summary", eng),
                                       imgs, ok1),
                       map, 0, imgs, ok2)
         IN [raised |-> FALSE, saved |-> TRUE, events |-> st.ev,
             fetches |-> ImageFetches(map, imgs, ok1, ok2)]

\* What fetching and decoding image k can do: "your desired image" has no URL
\* scheme, so requests.get raises on it; any other URL may fail or succeed.
FetchInputs(imgs, k) ==
    IF Len(imgs) >= k /\ imgs[k] # MockItem.image THEN BOOLEAN ELSE {FALSE}


(************************** crewai_flow_run ********************************)
\* mutant of CheckResults: the run goes on with an empty result list
CheckResultsNoExit ==
    /\ pc = "searched"
    /\ pc' = "summarize"
    /\ UNCHANGED <<cfg, results, max_images, summary_en, images, translations, doc,
                   sent, ret, calls, net, provLog>>

\* if not results: return False
CheckResults ==
    /\ pc = "searched"
    /\ IF results = <<>>
       THEN pc' = "done" /\ ret' = "False"
       ELSE pc' = "summarize" /\ ret' = ret
    /\ UNCHANGED <<cfg, results, max_images, summary_en, images, translations, doc,
                   sent, calls, net, provLog>>

\* summary_en = summary_agent_generate(results)
Summarize ==
    /\ pc = "summarize"
    /\ \E http \in GenInputs :
         LET s == summary_agent_generate(results, cfg.LITELLM_API_KEY, http) IN
         /\ summary_en' = s.text
         /\ calls' = calls \o <<"summary_agent_generate">> \o
                     (IF s.generated THEN <<"litellm_generate">> ELSE <<>>)
         /\ net' = IF s.requested THEN Append(net, "litellm") ELSE net
    /\ pc' = "select"
    /\ UNCHANGED <<cfg, results, max_images, images, translations, doc, sent, ret, provLog>>

\* images = select_images_from_results(results, max_images=2)
SelectImages ==
    /\ pc = "select"
    /\ images' = select_images_from_results(results, max_images)
    /\ calls' = Append(calls, "select_images_from_results")
    /\ pc' = "translations"
    /\ UNCHANGED <<cfg, results, max_images, summary_en, translations, doc, sent, ret,
                   net, provLog>>

\* translations = {}; translations["english"] = summary_en
StartTranslations ==
    /\ pc = "translations"
    /\ translations' = <<[lang |-> "english", text |-> summary_en]>>
    /\ pc' = "translate"
    /\ UNCHANGED <<cfg, results, max_images, summary_en, images, doc, sent, ret,
                   calls, net, provLog>>

\* for lang in ["arabic", "hindi", "hebrew"]
TARGET_LANGS == <<"arabic", "hindi", "hebrew">>

\* one iteration: translations[lang] = translating_agent_translate(summary_en, lang)
Translate ==
    /\ pc = "translate"
    /\ LET lang == TARGET_LANGS[Len(translations)] IN
       \E http \in GenInputs :
         LET t == translating_agent_translate(summary_en, lang, cfg.LITELLM_API_KEY, http) IN
         /\ translations' = Append(translations, [lang |-> lang, text |-> t.text])
         /\ calls' = calls \o <<"translating_agent_translate:" \o lang, "litellm_generate">>
         /\ net' = IF t.requested THEN Append(net, "litellm") ELSE net
    /\ pc' = IF Len(translations) = Len(TARGET_LANGS) THEN "render" ELSE "translate"
    /\ UNCHANGED <<cfg, results, max_images, summary_en, images, doc, sent, ret, provLog>>

\* create_pdf(translations, images, out_pdf); an exception out of it is caught
\* by the except of crewai_flow_run, which returns False
CreatePdf ==
    /\ pc = "render"
    /\ \E ok1 \in FetchInputs(images, 1), ok2 \in FetchInputs(images, 2) :
         doc' = create_pdf(translations, images, ok1, ok2)
    /\ net' = net \o [i \in DOMAIN doc'.fetches |-> "image"]
    /\ pc' = IF doc'.raised THEN "done" ELSE "send"
    /\ ret' = IF doc'.raised THEN "False" ELSE ret
    /\ calls' = Append(calls, "create_pdf")
    /\ UNCHANGED <<cfg, results, max_images, summary_en, images, translations, sent,
                   provLog>>

\* mutant of TelegramConfigured: the credentials are not looked at
TelegramAlwaysConfigured(c) == TRUE

\* not (not TELEGRAM_BOT_TOKEN or not TELEGRAM_CHANNEL_ID)
TelegramConfigured(c) == c.TELEGRAM_BOT_TOKEN /\ c.TELEGRAM_CHANNEL_ID

\* what requests.post to sendDocument can do: raise, or answer with a status
TelegramOutcomes == {"raise", "200", "other"}

\* mutant of SendToTelegram: a refused delivery is tried again
SendToTelegramRetrying ==
    /\ pc = "send"
    /\ calls' = Append(calls, "send_to_telegram")
    /\ IF ~TelegramConfigured(cfg)
       THEN sent' = "False" /\ pc' = "return" /\ UNCHANGED <<net, ret>>
       ELSE \E out \in TelegramOutcomes :
              /\ net' = Append(net, "telegram")
              /\ sent' = IF out = "200" THEN "True" ELSE sent
              /\ pc' = IF out = "200" THEN "return" ELSE "send"
              /\ ret' = ret
    /\ UNCHANGED <<cfg, results, max_images, summary_en, images, translations, doc,
                   provLog>>

\* sent = send_to_telegram(out_pdf, ...): no request without both credentials;
\* else one post, whose exception leaves send_to_telegram and is caught by the
\* except of crewai_flow_run, which returns False
SendToTelegram ==
    /\ pc = "send"
    /\ calls' = Append(calls, "send_to_telegram")
    /\ IF ~TelegramConfigured(cfg)
       THEN sent' = "False" /\ pc' = "return" /\ UNCHANGED <<net, ret>>
       ELSE \E out \in TelegramOutcomes :
              /\ net' = Append(net, "telegram")
              /\ sent' = IF out = "raise" THEN sent ELSE IF out = "200" THEN "True" ELSE "False"
              /\ pc' = IF out = "raise" THEN "done" ELSE "return"
              /\ ret' = IF out = "raise" THEN "False" ELSE ret
    /\ UNCHANGED <<cfg, results, max_images, summary_en, images, translations, doc,
                   provLog>>

\* return True
ReturnTrue ==
    /\ pc = "return"
    /\ ret' = "True"
    /\ pc' = "done"
    /\ UNCHANGED <<cfg, results, max_images, summary_en, images, translations, doc,
                   sent, calls, net, provLog>>

(******************* specification: the whole run **************************)
Init ==
    /\ cfg \in Configs
    /\ pc = "tavily"
    /\ results = <<>>
    /\ max_images = 2
    /\ summary_en = NoText
    /\ images = <<>>
    /\ translations = <<>>
    /\ doc = NoDoc
    /\ sent = "unset"
    /\ ret = "unset"
    /\ calls = <<>>
    /\ net = <<>>
    /\ provLog = <<>>

Next ==
    \/ SearchTavily(RunAnswers)
    \/ SearchSerper(RunAnswers)
    \/ DedupeResults
    \/ CheckResults
    \/ Summarize
    \/ SelectImages
    \/ StartTranslations
    \/ Translate
    \/ CreatePdf
    \/ SendToTelegram
    \/ ReturnTrue

Spec == Init /\ [][Next]_vars

(******************* specification: the search agent ***********************)
\* search_agent_us_financial_news alone; the credentials it does not read are unset
InitSearch ==
    /\ cfg \in {c \in Configs : ~c.LITELLM_API_KEY /\ ~c.TELEGRAM_BOT_TOKEN
                                 /\ ~c.TELEGRAM_CHANNEL_ID}
    /\ pc = "tavily"
    /\ results = <<>>
    /\ max_images = 2
    /\ summary_en = NoText
    /\ images = <<>>
    /\ translations = <<>>
    /\ doc = NoDoc
    /\ sent = "unset"
    /\ ret = "unset"
    /\ calls = <<>>
    /\ net = <<>>
    /\ provLog = <<>>

NextSearch ==
    \/ SearchTavily(SearchAnswers)
    \/ SearchSerper(SearchAnswers)
    \/ DedupeResults

SpecSearch == InitSearch /\ [][NextSearch]_vars

(******************* specification: image selection ************************)
\* select_images_from_results on any result list and any max_images >= 0
InitSelect ==
    /\ cfg = [SERPER_API_KEY |-> FALSE, TAVILY_API_KEY |-> FALSE,
              LITELLM_API_KEY |-> FALSE, TELEGRAM_BOT_TOKEN |-> FALSE,
              TELEGRAM_CHANNEL_ID |-> FALSE]
    /\ pc = "select"
    /\ results \in SearchAnswers
    /\ max_images \in 0..MaxImages
    /\ summary_en = NoText
    /\ images = <<>>
    /\ translations = <<>>
    /\ doc = NoDoc
    /\ sent = "unset"
    /\ ret = "unset"
    /\ calls = <<>>
    /\ net = <<>>
    /\ provLog = <<>>

NextSelect == SelectImages

SpecSelect == InitSelect /\ [][NextSelect]_vars

(******************* specification: create_pdf *****************************)
PdfLangs == {"english", "arabic", "hindi", "hebrew"}

\* the insertion orders of a map: the sequences of distinct languages
PdfOrders ==
    {o \in UNION {[1..k -> PdfLangs] : k \in 1..Cardinality(PdfLangs)} :
        \A i, j \in DOMAIN o : i # j => o[i] # o[j]}

\* a map: an insertion order, the key of the English entry, the lines of the
\* English digest and the lines of every other digest
PdfMap(o, engKey, engLines, otherLines) ==
    [i \in DOMAIN o |->
        IF o[i] = "english"
        THEN [lang |-> engKey, text |-> [tag |-> "text", lines |-> engLines]]
        ELSE [lang |-> o[i], text |-> [tag |-> "text", lines |-> otherLines]]]

PdfMaps ==
    {PdfMap(o, k, n, m) : o \in PdfOrders, k \in {"english", "en"},
                          n \in 1..MaxLines, m \in {2, 12}}

PdfImageSets == {<<>>, <<"img1">>, <<"img1", "img2">>}

\* create_pdf on any map and any image list
InitPdf ==
    /\ cfg = [SERPER_API_KEY |-> FALSE, TAVILY_API_KEY |-> FALSE,
              LITELLM_API_KEY |-> FALSE, TELEGRAM_BOT_TOKEN |-> FALSE,
              TELEGRAM_CHANNEL_ID |-> FALSE]
    /\ pc = "render"
    /\ results = <<>>
    /\ max_images = 2
    /\ summary_en = NoText
    /\ images \in PdfImageSets
    /\ translations \in PdfMaps
    /\ doc = NoDoc
    /\ sent = "unset"
    /\ ret = "unset"
    /\ calls = <<>>
    /\ net = <<>>
    /\ provLog = <<>>

NextPdf == CreatePdf

SpecPdf == InitPdf /\ [][NextPdf]_vars

(************************** properties *************************************)
Range(s) == {s[i] : i \in DOMAIN s}

\* what a provider call of the log contributed: nothing when it raised
Contribution(e) == IF e.raised THEN <<>> ELSE e.items

\* C1: a run whose ingestion yields a non-empty deduplicated result set returns
\* True, whatever fails in the later stages (generation, image fetches, the
\* delivery attempt of send_to_telegram).  The code returns False when the
\* delivery request raises.
C1_ReturnsTrueOnceIngested ==
    (pc = "done" /\ results # <<>>) => ret = "True"

\* both provider calls were made and neither contributed an item
BothProvidersEmpty ==
    Len(provLog) = 2 /\ \A i \in 1..2 : Contribution(provLog[i]) = <<>>

\* C2: when both provider calls contribute no items, the run returns False and
\* issues no generation call, never calls create_pdf (no document) and never
\* calls send_to_telegram.
C2_NoItemsEndsRun ==
    BothProvidersEmpty =>
        /\ pc \in {"dedupe", "searched", "done"}
        /\ pc = "done" => ret = "False"
        /\ Range(calls) \cap {"litellm_generate", "create_pdf", "send_to_telegram"} = {}
        /\ Range(net) \cap {"litellm", "image", "telegram"} = {}
        /\ doc = NoDoc

\* C2 witness: one provider call raised, the other answered an empty list, and
\* the run ended returning False
C2_Witness ==
    /\ BothProvidersEmpty
    /\ provLog[1].raised /\ ~provLog[2].raised
    /\ pc = "done" /\ ret = "False"

\* C3: select_images_from_results(results, max_images) returns exactly
\* max_images entries for every max_images >= 0 and every result list.  The
\* code returns one entry for max_images = 0 when the first result has an image.
C3_ExactlyMaxImages ==
    pc = "translations" => Len(images) = max_images

\* the dedupe key as the claim states it: the link, or the title when the
\* link is absent
C4Key(r) == IF r.link = None \/ r.link = "" THEN r.title ELSE r.link

\* the concatenation search_agent dedupes: search_tavily's items, then search_serper's
C4Input == Contribution(provLog[1]) \o Contribution(provLog[2])

\* the first position of key k in the concatenation
C4First(k) ==
    CHOOSE i \in DOMAIN C4Input :
        C4Key(C4Input[i]) = k /\ \A j \in 1..(i - 1) : C4Key(C4Input[j]) # k

\* C4: the list search_agent_us_financial_news returns is the concatenation of
\* the two providers' results (tavily's first) reduced to the first occurrence
\* of each key: no two items share a key, every key of the input appears, the
\* kept item is the first-encountered copy, and the order is first-seen order.
C4_FirstOccurrencePerKey ==
    pc = "searched" =>
        /\ provLog[1].fn = "search_tavily" /\ provLog[2].fn = "search_serper"
        /\ \A i, j \in DOMAIN results :
               i # j => C4Key(results[i]) # C4Key(results[j])
        /\ \A i \in DOMAIN C4Input :
               \E j \in DOMAIN results : C4Key(results[j]) = C4Key(C4Input[i])
        /\ \A j \in DOMAIN results :
               /\ \E i \in DOMAIN C4Input : C4Key(C4Input[i]) = C4Key(results[j])
               /\ results[j] = C4Input[C4First(C4Key(results[j]))]
        /\ \A i, j \in DOMAIN results :
               i < j => C4First(C4Key(results[i])) < C4First(C4Key(results[j]))

\* C4 witness: the two calls returned different copies under one key, the
\* later one keyed by its title, and the agent returned
C4_Witness ==
    /\ pc = "searched"
    /\ \E i, j \in DOMAIN C4Input :
          /\ i < j
          /\ C4Key(C4Input[i]) = C4Key(C4Input[j])
          /\ C4Input[i] # C4Input[j]
          /\ C4Input[j].link = None
    /\ Len(results) >= 2

\* C5: search_tavily is called first and search_serper second, both always; a
\* call that raises contributes no items, does not prevent the other call and
\* does not discard what the other call returned; the agent itself returns.
C5_ProviderFailuresAbsorbed ==
    /\ pc \in {"tavily", "serper", "dedupe", "searched"}
    /\ Len(calls) <= 2
    /\ \A i \in DOMAIN calls : calls[i] = <<"search_tavily", "search_serper">>[i]
    /\ Len(provLog) = Len(calls)
    /\ \A i \in DOMAIN provLog : provLog[i].fn = calls[i]
    /\ pc = "serper" => Len(calls) = 1 /\ results = Contribution(provLog[1])
    /\ pc \in {"dedupe", "searched"} => Len(calls) = 2
    /\ pc = "dedupe" => results = Contribution(provLog[1]) \o Contribution(provLog[2])
    /\ pc = "searched" =>
          /\ \A i \in 1..2 : \A k \in DOMAIN Contribution(provLog[i]) :
                 \E j \in DOMAIN results :
                     C4Key(results[j]) = C4Key(Contribution(provLog[i])[k])
          /\ \A j \in DOMAIN results :
                 \E i \in 1..2 : results[j] \in Range(Contribution(provLog[i]))

\* C5 witness: search_tavily returned items, search_serper raised, and the
\* agent returned tavily's items
C5_Witness ==
    /\ pc = "searched"
    /\ ~provLog[1].raised /\ provLog[1].items # <<>>
    /\ provLog[2].raised
    /\ results # <<>>

NoCredentials ==
    /\ ~cfg.SERPER_API_KEY /\ ~cfg.TAVILY_API_KEY /\ ~cfg.LITELLM_API_KEY
    /\ ~cfg.TELEGRAM_BOT_TOKEN /\ ~cfg.TELEGRAM_CHANNEL_ID

\* the calls of a run that goes through every stage
FullRunCalls ==
    <<"search_tavily", "search_serper",
      "summary_agent_generate", "litellm_generate",
      "select_images_from_results",
      "translating_agent_translate:arabic", "litellm_generate",
      "translating_agent_translate:hindi", "litellm_generate",
      "translating_agent_translate:hebrew", "litellm_generate",
      "create_pdf", "send_to_telegram">>

\* C6: with no search, generation and messaging credentials the run goes
\* through every stage on mock data (the mock search result, the mock text for
\* the summary and the three translations, the document saved) and returns
\* True, while send_to_telegram returns False without any delivery request.
C6_MockRunCompletes ==
    NoCredentials =>
        /\ Range(net) \cap {"serper", "litellm", "telegram"} = {}
        /\ pc \notin {"tavily", "serper", "dedupe"} => results = <<MockItem>>
        /\ summary_en # NoText => summary_en.tag = "mock"
        /\ \A i \in DOMAIN translations : translations[i].text.tag = "mock"
        /\ sent \in {"unset", "False"}
        /\ ret \in {"unset", "True"}
        /\ pc = "done" =>
              /\ ret = "True"
              /\ sent = "False"
              /\ calls = FullRunCalls
              /\ doc.saved
              /\ [i \in DOMAIN translations |-> translations[i].lang]
                     = <<"english", "arabic", "hindi", "hebrew">>

\* C6 witness: a run without credentials that ended
C6_Witness ==
    NoCredentials /\ pc = "done" /\ ret = "True" /\ sent = "False" /\ doc.saved

IsTitle(e) == e.kind = "title"

IsImage(e) == e.kind = "image"

IsOtherLanguage(t) == t.lang \notin {"english", "en"}

\* the titled sections and the image placements of the document, in order
TitleEvents == SelectSeq(doc.events, IsTitle)

ImageEvents == SelectSeq(doc.events, IsImage)

\* the entries of the map other than the English one, in insertion order
OtherEntries == SelectSeq(translations, IsOtherLanguage)

\* the map holds the English entry and n >= 1 others, the image list has 2
\* entries, and no image fetch of the rendering failed
C7Case ==
    /\ pc = "send" /\ doc.saved
    /\ Len(translations) = Len(OtherEntries) + 1
    /\ Len(OtherEntries) >= 1
    /\ Len(images) = 2
    /\ \A i \in DOMAIN doc.fetches : doc.fetches[i].ok

\* C7: for a map with the English entry and n >= 1 other languages in any
\* insertion order, and 2 images whose fetches succeed, create_pdf emits n+1
\* titled sections, English first and the others in insertion order, and places
\* exactly 2 images: the first right after the English section, the second
\* once after a non-English section.  The code places no second image when
\* the English entry is the second entry of the map.
C7_SectionsAndTwoImages ==
    C7Case =>
        /\ Len(TitleEvents) = Len(OtherEntries) + 1
        /\ TitleEvents[1].label = "English Summary"
        /\ \A i \in DOMAIN OtherEntries :
               TitleEvents[i + 1].label = SectionTitle(OtherEntries[i].lang)
        /\ Len(ImageEvents) = 2
        /\ ImageEvents[1].label = "first" /\ ImageEvents[2].label = "second"
        /\ \E i \in DOMAIN doc.events :
               /\ doc.events[i].label = "first"
               /\ Cardinality({j \in 1..i : IsTitle(doc.events[j])}) = 1
               /\ i < Len(doc.events) => IsTitle(doc.events[i + 1])
        /\ \E i \in DOMAIN doc.events :
               /\ doc.events[i].label = "second"
               /\ Cardinality({j \in 1..i : IsTitle(doc.events[j])}) >= 2
               /\ doc.events[i - 1].kind = "line"

\* C8: send_to_telegram is invoked at most once, and only after the summary
\* call and the three translation calls (arabic, hindi, hebrew, in that order)
\* have returned and create_pdf has saved the document; no stage is entered
\* again after a later stage has started.
C8_StagesInOrderSendOnce ==
    /\ Len(calls) <= Len(FullRunCalls)
    /\ \A i \in DOMAIN calls : calls[i] = FullRunCalls[i]
    /\ Cardinality({i \in DOMAIN calls : calls[i] = "send_to_telegram"}) <= 1
    /\ Cardinality({i \in DOMAIN net : net[i] = "telegram"}) <= 1
    /\ "send_to_telegram" \in Range(calls) =>
          /\ summary_en # NoText
          /\ [i \in DOMAIN translations |-> translations[i].lang]
                 = <<"english", "arabic", "hindi", "hebrew">>
          /\ doc.saved
          /\ \E s \in DOMAIN calls :
                /\ calls[s] = "send_to_telegram"
                /\ \E a \in 1..(s - 1) :
                      /\ calls[a] = "summary_agent_generate"
                      /\ \E b \in (a + 1)..(s - 1) :
                            /\ calls[b] = "translating_agent_translate:arabic"
                            /\ \E c \in (b + 1)..(s - 1) :
                                  /\ calls[c] = "translating_agent_translate:hindi"
                                  /\ \E d \in (c + 1)..(s - 1) :
                                        /\ calls[d] = "translating_agent_translate:hebrew"
                                        /\ \E e \in (d + 1)..(s - 1) :
                                              calls[e] = "create_pdf"

\* C8 witness: a run that delivered the document and ended
C8_Witness ==
    /\ pc = "done" /\ ret = "True" /\ sent = "True"
    /\ calls = FullRunCalls
    /\ net[Len(net)] = "telegram"

\* C9: every line of a digest is drawn at y >= margin + 50 of its page: a line
\* that finds y below margin + 50 is drawn at the top (h - margin) of a new
\* page, for digests of any number of lines.
C9_LinesAbovePageBottom ==
    \A i \in DOMAIN doc.events :
        doc.events[i].kind = "line" =>
            /\ doc.events[i].y >= margin + 50
            /\ doc.events[i].y <= PageHeight - margin
            /\ doc.events[i].y0 < margin + 50 =>
                  /\ doc.events[i].y = PageHeight - margin
                  /\ doc.events[i].page = doc.events[i - 1].page + 1
            /\ doc.events[i].y0 >= margin + 50 =>
                  /\ doc.events[i].y = doc.events[i].y0
                  /\ doc.events[i].page = doc.events[i - 1].page

\* C9 witness: a digest ran out of page and its next line opened a new page
C9_Witness ==
    /\ pc = "send" /\ doc.saved
    /\ \E i \in DOMAIN doc.events :
          /\ doc.events[i].kind = "line"
          /\ doc.events[i].y0 < margin + 50
          /\ doc.events[i].page = 2
          /\ doc.events[i - 1].kind = "line"

\* C10: everything create_pdf draws stays within the height of its page: for
\* every English digest length each placed image has its bottom edge
\* y - 310 >= 0 and each section title is drawn at y >= 0.  The code draws the
\* first image with no page check: its bottom edge is below the page after an
\* English digest of 30 lines or more, and the next title from 29 lines on.
C10_DrawnWithinPage ==
    \A i \in DOMAIN doc.events :
        /\ doc.events[i].kind = "image" => doc.events[i].y >= 0
        /\ doc.events[i].kind = "title" => doc.events[i].y >= 0

====
